---- MODULE Spec2Model ----
(***************************************************************************)
(* A model of hazelcast/invocation.py: the Future (a result container with *)
(* callbacks and continuations), the Invocation and the InvocationService  *)
(* (correlation ids, routing, the pending and listener tables, failure     *)
(* classification, retry, timeout and connection teardown).                *)
(*                                                                         *)
(* Two specifications share the module.  SpecFuture runs one Future under  *)
(* two threads at statement granularity (a thread that calls set_result /  *)
(* set_exception and a thread that calls add_done_callback /               *)
(* continue_with).  Spec runs the InvocationService, one action per        *)
(* handler.                                                                *)
(***************************************************************************)
EXTENDS Integers, Sequences, FiniteSets, TLC

\* ---------------------------------------------------------------- bounds
MaxSets == 2          \* set_result / set_exception calls made on the Future
MaxCallbacks == 2     \* callbacks registered on the Future
MaxInvocations == 1   \* Invocation objects created, one caller
MaxConcurrent == 2    \* Invocation objects created, several callers
MaxCorrelationId == 3 \* sends (each takes a new correlation id)
MaxEvents == 2        \* event messages handed to an event handler
MaxTicks == 2         \* times the clock is seen to advance

\* ------------------------------------------------------ program constants
INVOCATION_TIMEOUT == 120
RETRY_WAIT_TIME_IN_SECONDS == 1

\* ------------------------------------------------------------ the Future
VARIABLES future,     \* the base Future: _result, _exception, _event, _callbacks
          contFuture, \* the Future created by continue_with
          contCb,     \* the id of continue_with's inner callback (0: none yet)
          contFunc,   \* the continuation_func given to continue_with
          pc,         \* the position of each thread
          local,      \* the local variables of each thread
          calls,      \* the set_result / set_exception calls made so far
          cbLog,      \* the callbacks invoked so far, in order
          fLog        \* the arguments continuation_func was invoked with

fvars == <<future, contFuture, contCb, contFunc, pc, local, calls, cbLog, fLog>>

\* ------------------------------------------------- the InvocationService
VARIABLES invocations,          \* the Invocation objects created so far
          _pending,             \* InvocationService._pending
          _listeners,           \* InvocationService._listeners
          _next_correlation_id, \* InvocationService._next_correlation_id
          _is_redo_operation,   \* InvocationService._is_redo_operation
          now,                  \* time.time()
          retryTimers,          \* the reactor's add_timer entries
          outbox,               \* the messages handed to connection.send_message
          callback,             \* connection.callback, per connection
          partition_owner,      \* the partition service's table
          load_balancer,        \* the address the load balancer returns next
          eventLog,             \* the event_handler calls made so far
          escaped,              \* whether the last handle_client_message call raised
          warned,               \* whether it logged "unknown correlation id"
          ticks                 \* how many times the clock was seen to advance

svars == <<invocations, _pending, _listeners, _next_correlation_id,
           _is_redo_operation, now, retryTimers, outbox, callback,
           partition_owner, load_balancer, eventLog, escaped, warned, ticks>>

\* ------------------------------------------------ the callers of the service
VARIABLES invocationLimit, \* how many Invocation objects the callers create
          spc,             \* the position of each caller thread inside _send
          slocal           \* _send's local variables, per caller thread

tvars == <<invocationLimit, spc, slocal>>

vars == <<fvars, svars, tvars>>

\* Python's None, for a result (an integer) and for an exception (a string).
None == 0
NoException == "None"

Values == {1, 2}
Exceptions == {"ValueError"}

Threads == {"setter", "adder"}

\* The continuation functions tried: each takes the Future as its parameter.
\*   "inc"    lambda f: f.result() + 10
\*   "const"  lambda f: 7
\*   "raise"  a function that raises FuncError
ContinuationFuncs == {"inc", "const", "raise"}

\* Future.__init__ and the class attributes _result = None, _exception = None.
NewFuture == [_result |-> None, _exception |-> NoException,
              _event |-> FALSE, _callbacks |-> <<>>]

\* Future.done
done(f) == f._event

\* Future.result, once the event is set: <<"raise", error>> or <<"return", value>>.
result(f) ==
    IF f._exception # NoException
    THEN <<"raise", f._exception>>
    ELSE <<"return", f._result>>

\* continue_with's callback as it would be if it passed an error of the base
\* Future on without calling continuation_func.
continuation_func_skipped_on_error(func, f) ==
    IF f._exception # NoException THEN <<"raise", f._exception>>
    ELSE CASE func = "inc" -> <<"return", f._result + 10>>
           [] func = "const" -> <<"return", 7>>
           [] OTHER -> <<"raise", "FuncError">>

\* continuation_func(f): what the call does, <<"raise", error>> or <<"return", value>>.
continuation_func(func, f) ==
    CASE func = "inc" ->
           IF result(f)[1] = "raise" THEN result(f) ELSE <<"return", result(f)[2] + 10>>
      [] func = "const" -> <<"return", 7>>
      [] OTHER -> <<"raise", "FuncError">>

\* Future.set_result and Future.set_exception run by one thread with no other
\* thread on the Future and no callback registered: the stored field and the
\* event (_invoke_callbacks then has nothing to call).
Future_set_result(f, r) == [f EXCEPT !._result = r, !._event = TRUE]
Future_set_exception(f, e) == [f EXCEPT !._exception = e, !._event = TRUE]

FutureInit ==
    /\ future = NewFuture
    /\ contFuture = NewFuture
    /\ contCb = 0
    /\ contFunc = "none"
    /\ pc = [t \in Threads |-> "idle"]
    /\ local = [t \in Threads |-> [idx |-> 0, cb |-> 0, back |-> "idle",
                                   ret |-> <<"return", None>>]]
    /\ calls = <<>>
    /\ cbLog = <<>>
    /\ fLog = <<>>

\* set_result, first statement: self._result = result
SetResultStore(t, v) ==
    /\ t = "setter" /\ pc[t] = "idle" /\ Len(calls) < MaxSets
    /\ future' = [future EXCEPT !._result = v]
    /\ calls' = Append(calls, [op |-> "set_result", value |-> v, error |-> NoException])
    /\ pc' = [pc EXCEPT ![t] = "signal"]
    /\ UNCHANGED <<contFuture, contCb, contFunc, local, cbLog, fLog, svars, tvars>>

\* set_exception, first statement: self._exception = exception
SetExceptionStore(t, e) ==
    /\ t = "setter" /\ pc[t] = "idle" /\ Len(calls) < MaxSets
    /\ future' = [future EXCEPT !._exception = e]
    /\ calls' = Append(calls, [op |-> "set_exception", value |-> None, error |-> e])
    /\ pc' = [pc EXCEPT ![t] = "signal"]
    /\ UNCHANGED <<contFuture, contCb, contFunc, local, cbLog, fLog, svars, tvars>>

\* set_result / set_exception, second statement: self._event.set()
EventSet(t) ==
    /\ pc[t] = "signal"
    /\ future' = [future EXCEPT !._event = TRUE]
    /\ pc' = [pc EXCEPT ![t] = "iterate"]
    /\ local' = [local EXCEPT ![t].idx = 0]
    /\ UNCHANGED <<contFuture, contCb, contFunc, calls, cbLog, fLog, svars, tvars>>

\* _invoke_cb(callback) by thread t, which goes on at `back` afterwards.  A plain
\* callback runs (the try/except keeps whatever it raises from the caller).
\* continue_with's inner callback first evaluates continuation_func(f); its
\* set_result / set_exception on the new Future is the thread's next step.
_invoke_cb(t, cb, back, idx) ==
    /\ cbLog' = Append(cbLog, cb)
    /\ IF cb = contCb
       THEN /\ local' = [local EXCEPT ![t].ret = continuation_func(contFunc, future),
                                      ![t].back = back, ![t].idx = idx]
            /\ fLog' = Append(fLog, result(future))
            /\ pc' = [pc EXCEPT ![t] = "cont_set"]
       ELSE /\ local' = [local EXCEPT ![t].idx = idx]
            /\ fLog' = fLog
            /\ pc' = [pc EXCEPT ![t] = back]

\* _invoke_callbacks: one turn of `for callback in self._callbacks`.  The list is
\* read through an index, so an append made during the loop is seen by it.
InvokeCallbacks(t) ==
    /\ pc[t] = "iterate"
    /\ local[t].idx < Len(future._callbacks)
    /\ _invoke_cb(t, future._callbacks[local[t].idx + 1], "iterate", local[t].idx + 1)
    /\ UNCHANGED <<future, contFuture, contCb, contFunc, calls, svars, tvars>>

\* _invoke_callbacks: the loop ends and set_result / set_exception returns.
InvokeCallbacksEnd(t) ==
    /\ pc[t] = "iterate"
    /\ local[t].idx >= Len(future._callbacks)
    /\ pc' = [pc EXCEPT ![t] = "idle"]
    /\ UNCHANGED <<future, contFuture, contCb, contFunc, local, calls, cbLog, fLog, svars, tvars>>

\* continue_with's inner callback, after continuation_func returned or raised:
\* future.set_result(<returned>) or future.set_exception(<raised>).
ContinuationSet(t) ==
    /\ pc[t] = "cont_set"
    /\ contFuture' = IF local[t].ret[1] = "raise"
                     THEN Future_set_exception(contFuture, local[t].ret[2])
                     ELSE Future_set_result(contFuture, local[t].ret[2])
    /\ pc' = [pc EXCEPT ![t] = local[t].back]
    /\ UNCHANGED <<future, contCb, contFunc, local, calls, cbLog, fLog, svars, tvars>>

\* add_done_callback, first statement: self._callbacks.append(callback)
AddDoneCallback(t) ==
    /\ t = "adder" /\ pc[t] = "idle" /\ Len(future._callbacks) < MaxCallbacks
    /\ LET cb == Len(future._callbacks) + 1
       IN /\ future' = [future EXCEPT !._callbacks = Append(@, cb)]
          /\ local' = [local EXCEPT ![t].cb = cb]
    /\ pc' = [pc EXCEPT ![t] = "check"]
    /\ UNCHANGED <<contFuture, contCb, contFunc, calls, cbLog, fLog, svars, tvars>>

\* continue_with(continuation_func): a new Future, the inner callback, and the
\* first statement of self.add_done_callback(callback).
ContinueWith(t, func) ==
    /\ t = "adder" /\ pc[t] = "idle" /\ Len(future._callbacks) < MaxCallbacks
    /\ contCb = 0
    /\ LET cb == Len(future._callbacks) + 1
       IN /\ future' = [future EXCEPT !._callbacks = Append(@, cb)]
          /\ local' = [local EXCEPT ![t].cb = cb]
          /\ contCb' = cb
    /\ contFunc' = func
    /\ contFuture' = NewFuture
    /\ pc' = [pc EXCEPT ![t] = "check"]
    /\ UNCHANGED <<calls, cbLog, fLog, svars, tvars>>

\* add_done_callback, second statement: if self.done()
CheckDone(t) ==
    /\ pc[t] = "check"
    /\ pc' = [pc EXCEPT ![t] = IF done(future) THEN "invoke_now" ELSE "idle"]
    /\ UNCHANGED <<future, contFuture, contCb, contFunc, local, calls, cbLog, fLog, svars, tvars>>

\* add_done_callback, third statement: self._invoke_cb(callback)
InvokeNow(t) ==
    /\ pc[t] = "invoke_now"
    /\ _invoke_cb(t, local[t].cb, "idle", local[t].idx)
    /\ UNCHANGED <<future, contFuture, contCb, contFunc, calls, svars, tvars>>

\* ------------------------------------------------- the InvocationService
Connections == {"c1", "c2"}
Addresses == {"a1", "a2"}
Partitions == {0}
NoConnection == "None"
NoAddress == "None"
NoPartition == -1
NoTimer == "None"
CorrelationIds == 1 .. MaxCorrelationId

\* The errors create_exception(ErrorCodec(message)) can give.
Errors == {"IOError", "HazelcastInstanceNotActiveError", "RetryableError", "OtherError"}
TimeoutError == "TimeoutError"
ConnectionClosedError == "IOError: Connection to server was closed."

\* No message: the _result of a Future that set_result never ran on.
NoMessage == [correlation_id |-> 0, listener |-> FALSE, type |-> "None",
              error |-> NoException]

\* The messages a connection can deliver: a response, an encoded exception, or
\* an event (LISTENER_FLAG set).
Messages ==
    {[correlation_id |-> c, listener |-> FALSE, type |-> "response",
      error |-> NoException] : c \in CorrelationIds}
    \cup {[correlation_id |-> c, listener |-> FALSE, type |-> "exception",
           error |-> e] : c \in CorrelationIds, e \in Errors}
    \cup {[correlation_id |-> c, listener |-> TRUE, type |-> "event",
           error |-> NoException] : c \in CorrelationIds}

\* isinstance(error, (IOError, HazelcastInstanceNotActiveError))
IsTransportError(error) == error \in {"IOError", "HazelcastInstanceNotActiveError"}

\* hazelcast.exception.is_retryable_error: the errors the protocol marks retryable.
is_retryable_error(error) == error \in {"HazelcastInstanceNotActiveError", "RetryableError"}

\* connection_manager.get_or_connect(address): the connection to that address.
get_or_connect(address) == IF address = "a1" THEN "c1" ELSE "c2"

\* load_balancer.next_address() returns load_balancer; the balancer then moves on.
next_address_after(address) == IF address = "a1" THEN "a2" ELSE "a1"

\* AtomicInteger.increment_and_get on a counter that starts at 1: the id handed
\* out, and the counter afterwards.
increment_and_get(counter) == [id |-> counter, counter |-> counter + 1]

\* Invocation.__init__; `armed` lists the deadlines the reactor was asked to arm
\* a timer for (add_timer_absolute calls made for this Invocation).
Invocation(request, partition_id, address, connection, event_handler) ==
    [request |-> request,
     partition_id |-> partition_id,
     address |-> address,
     connection |-> connection,
     event_handler |-> event_handler,
     timeout |-> INVOCATION_TIMEOUT + now,
     timer |-> NoTimer,
     armed |-> <<>>,
     future |-> [_result |-> NoMessage, _exception |-> NoException, _event |-> FALSE]]

\* A request message: whether it is retryable, and the ids stamped on it.
Request(retryable) ==
    [retryable |-> retryable, correlation_id |-> 0, partition_id |-> NoPartition]

has_connection(inv) == inv.connection # NoConnection
has_event_handler(inv) == inv.event_handler
has_partition_id(inv) == inv.partition_id >= 0
has_address(inv) == inv.address # NoAddress

\* timer.cancel(), on the handle the Invocation holds
cancel(timer) == IF timer = "armed" THEN "cancelled" ELSE timer

\* Invocation.set_response
Invocation_set_response(inv, response) ==
    [inv EXCEPT !.timer = IF @ # NoTimer THEN cancel(@) ELSE @,
                !.future = Future_set_result(@, response)]

\* Invocation.set_exception
Invocation_set_exception(inv, exception) ==
    [inv EXCEPT !.timer = IF @ # NoTimer THEN cancel(@) ELSE @,
                !.future = Future_set_exception(@, exception)]

\* Invocation.on_timeout
on_timeout(inv) == Invocation_set_exception(inv, TimeoutError)

\* InvocationService.__init__. _is_redo_operation is assigned False there with
\* the note that it is to be set from the configuration; handle_exception reads
\* it, so both settings of the attribute are explored.
ServiceInit ==
    /\ invocations = <<>>
    /\ _pending = [c \in CorrelationIds |-> 0]
    /\ _listeners = [c \in CorrelationIds |-> 0]
    /\ _next_correlation_id = 1
    /\ _is_redo_operation \in BOOLEAN
    /\ now = 0
    /\ retryTimers = {}
    /\ outbox = <<>>
    /\ callback = [c \in Connections |-> FALSE]
    /\ partition_owner = [p \in Partitions |-> "a1"]
    /\ load_balancer = "a1"
    /\ eventLog = <<>>
    /\ escaped = FALSE
    /\ warned = FALSE
    /\ ticks = 0


\* _send as it would be if a retry kept the correlation id already stamped on
\* the request.
_send_keeping_id(i, inv, connection, others) ==
    LET got == increment_and_get(_next_correlation_id)
        correlation_id == IF inv.request.correlation_id # 0
                          THEN inv.request.correlation_id ELSE got.id
        sent == [inv EXCEPT !.request.correlation_id = correlation_id,
                            !.request.partition_id = inv.partition_id,
                            !.timer = IF @ = NoTimer THEN "armed" ELSE @,
                            !.armed = IF inv.timer = NoTimer
                                      THEN Append(@, inv.timeout) ELSE @]
    IN /\ got.id <= MaxCorrelationId
       /\ _next_correlation_id' = got.counter
       /\ invocations' = [k \in 1 .. Len(others) |-> IF k = i THEN sent ELSE others[k]]
       /\ _pending' = [_pending EXCEPT ![correlation_id] = i]
       /\ _listeners' = IF has_event_handler(inv)
                        THEN [_listeners EXCEPT ![correlation_id] = i]
                        ELSE _listeners
       /\ callback' = [callback EXCEPT ![connection] = TRUE]
       /\ outbox' = Append(outbox, [correlation_id |-> correlation_id,
                                    partition_id |-> inv.partition_id,
                                    invocation |-> i,
                                    connection |-> connection])

\* _send as it would be if every send armed a deadline timer.
_send_arming_again(i, inv, connection, others) ==
    LET got == increment_and_get(_next_correlation_id)
        correlation_id == got.id
        sent == [inv EXCEPT !.request.correlation_id = correlation_id,
                            !.request.partition_id = inv.partition_id,
                            !.timer = "armed",
                            !.armed = Append(@, inv.timeout)]
    IN /\ correlation_id <= MaxCorrelationId
       /\ _next_correlation_id' = got.counter
       /\ invocations' = [k \in 1 .. Len(others) |-> IF k = i THEN sent ELSE others[k]]
       /\ _pending' = [_pending EXCEPT ![correlation_id] = i]
       /\ _listeners' = IF has_event_handler(inv)
                        THEN [_listeners EXCEPT ![correlation_id] = i]
                        ELSE _listeners
       /\ callback' = [callback EXCEPT ![connection] = TRUE]
       /\ outbox' = Append(outbox, [correlation_id |-> correlation_id,
                                    partition_id |-> inv.partition_id,
                                    invocation |-> i,
                                    connection |-> connection])

\* InvocationService._send, on the Invocation record inv (the i-th one) and the
\* connection chosen by the routing: a new correlation id, the stamps on the
\* request, the pending entry, the deadline timer unless the Invocation has one,
\* the listener entry, the connection's callback, and the hand-off.
_send(i, inv, connection, others) ==
    LET got == increment_and_get(_next_correlation_id)
        correlation_id == got.id
        sent == [inv EXCEPT !.request.correlation_id = correlation_id,
                            !.request.partition_id = inv.partition_id,
                            !.timer = IF @ = NoTimer THEN "armed" ELSE @,
                            !.armed = IF inv.timer = NoTimer
                                      THEN Append(@, inv.timeout) ELSE @]
    IN /\ correlation_id <= MaxCorrelationId
       /\ _next_correlation_id' = got.counter
       /\ invocations' = [k \in 1 .. Len(others) |-> IF k = i THEN sent ELSE others[k]]
       /\ _pending' = [_pending EXCEPT ![correlation_id] = i]
       /\ _listeners' = IF has_event_handler(inv)
                        THEN [_listeners EXCEPT ![correlation_id] = i]
                        ELSE _listeners
       /\ callback' = [callback EXCEPT ![connection] = TRUE]
       /\ outbox' = Append(outbox, [correlation_id |-> correlation_id,
                                    partition_id |-> inv.partition_id,
                                    invocation |-> i,
                                    connection |-> connection])

\* InvocationService._send_to_address
_send_to_address(i, inv, address, others) ==
    _send(i, inv, get_or_connect(address), others)

\* _invoke as it would be with the partition id looked at before the connection.
_invoke_partition_first(i, others) ==
    LET inv == others[i]
    IN IF has_partition_id(inv)
       THEN /\ _send_to_address(i, inv, partition_owner[inv.partition_id], others)
            /\ load_balancer' = load_balancer
       ELSE IF has_connection(inv)
       THEN /\ _send(i, inv, inv.connection, others)
            /\ load_balancer' = load_balancer
       ELSE IF has_address(inv)
       THEN /\ _send_to_address(i, inv, inv.address, others)
            /\ load_balancer' = load_balancer
       ELSE /\ _send_to_address(i, inv, load_balancer, others)
            /\ load_balancer' = next_address_after(load_balancer)

\* InvocationService._invoke on the i-th Invocation of the sequence `others`.
_invoke(i, others) ==
    LET inv == others[i]
    IN IF has_connection(inv)
       THEN /\ _send(i, inv, inv.connection, others)
            /\ load_balancer' = load_balancer
       ELSE IF has_partition_id(inv)
       THEN /\ _send_to_address(i, inv, partition_owner[inv.partition_id], others)
            /\ load_balancer' = load_balancer
       ELSE IF has_address(inv)
       THEN /\ _send_to_address(i, inv, inv.address, others)
            /\ load_balancer' = load_balancer
       ELSE /\ _send_to_address(i, inv, load_balancer, others)
            /\ load_balancer' = next_address_after(load_balancer)

\* _invoke(Invocation(...)) for a new Invocation.
InvokeNew(inv) ==
    /\ Len(invocations) < invocationLimit
    /\ _invoke(Len(invocations) + 1, Append(invocations, inv))
    /\ UNCHANGED <<fvars, tvars, warned, _is_redo_operation, now, retryTimers, partition_owner,
                   eventLog, escaped, ticks>>

invoke_on_connection(retryable, connection, event_handler) ==
    InvokeNew(Invocation(Request(retryable), NoPartition, NoAddress, connection, event_handler))

invoke_on_partition(retryable, partition_id, event_handler) ==
    InvokeNew(Invocation(Request(retryable), partition_id, NoAddress, NoConnection, event_handler))

invoke_on_random_target(retryable, event_handler) ==
    InvokeNew(Invocation(Request(retryable), NoPartition, NoAddress, NoConnection, event_handler))

invoke_on_target(retryable, address, event_handler) ==
    InvokeNew(Invocation(Request(retryable), NoPartition, address, NoConnection, event_handler))

\* _invoke on an Invocation that a caller built with more than one of
\* connection, partition_id and address given to Invocation.__init__.
invoke_built(partition_id, address, connection) ==
    /\ Cardinality({x \in {1, 2, 3} :
            \/ (x = 1 /\ connection # NoConnection)
            \/ (x = 2 /\ partition_id # NoPartition)
            \/ (x = 3 /\ address # NoAddress)}) > 1
    /\ InvokeNew(Invocation(Request(FALSE), partition_id, address, connection, FALSE))

\* try_retry as it would be without the test of the deadline.
try_retry_ignoring_deadline(inv) == ~ has_connection(inv)

\* try_retry as it would be without the test of the bound connection.
try_retry_rerouting_bound(inv) == ~ (inv.timeout < now)

\* InvocationService.try_retry: whether the retry is granted (and then scheduled).
try_retry(inv) ==
    /\ ~ has_connection(inv)
    /\ ~ (inv.timeout < now)

\* handle_exception as it would be if every error marked retryable were retried,
\* whatever the request and _is_redo_operation say.
handle_exception_retrying_all(i, error) ==
    LET inv == invocations[i]
        retried ==
            \/ IsTransportError(error) /\ try_retry(inv)
            \/ is_retryable_error(error) /\ try_retry(inv)
    IN IF retried
       THEN /\ retryTimers' = retryTimers \cup
                    {[invocation |-> i, at |-> now + RETRY_WAIT_TIME_IN_SECONDS]}
            /\ invocations' = invocations
       ELSE /\ retryTimers' = retryTimers
            /\ invocations' = [invocations EXCEPT ![i] = Invocation_set_exception(@, error)]

\* handle_exception as it would be if granting a retry cancelled the deadline
\* timer.
handle_exception_cancelling_timer(i, error) ==
    LET inv == invocations[i]
        retried ==
            \/ IsTransportError(error) /\ try_retry(inv)
            \/ /\ is_retryable_error(error)
               /\ (inv.request.retryable \/ _is_redo_operation)
               /\ try_retry(inv)
    IN IF retried
       THEN /\ retryTimers' = retryTimers \cup
                    {[invocation |-> i, at |-> now + RETRY_WAIT_TIME_IN_SECONDS]}
            /\ invocations' = [invocations EXCEPT ![i].timer = cancel(@)]
       ELSE /\ retryTimers' = retryTimers
            /\ invocations' = [invocations EXCEPT ![i] = Invocation_set_exception(@, error)]

\* InvocationService.handle_exception for the i-th Invocation, already popped
\* from _pending: either a retry timer is added, or the Invocation fails.
handle_exception(i, error) ==
    LET inv == invocations[i]
        retried ==
            \/ IsTransportError(error) /\ try_retry(inv)
            \/ /\ is_retryable_error(error)
               /\ inv.request.retryable \/ _is_redo_operation
               /\ try_retry(inv)
    IN IF retried
       THEN /\ retryTimers' = retryTimers \cup
                    {[invocation |-> i, at |-> now + RETRY_WAIT_TIME_IN_SECONDS]}
            /\ invocations' = invocations
       ELSE /\ retryTimers' = retryTimers
            /\ invocations' = [invocations EXCEPT ![i] = Invocation_set_exception(@, error)]

\* handle_event as it would be without the try/except around the handler.
handle_event_unprotected(i, message, raises) ==
    /\ eventLog' = Append(eventLog, [invocation |-> i,
                                     correlation_id |-> message.correlation_id,
                                     raised |-> raises])
    /\ escaped' = raises

\* InvocationService.handle_event: the handler is called with the message; the
\* try/except logs what the handler raises, so nothing leaves handle_event.
handle_event(i, message, raises) ==
    /\ eventLog' = Append(eventLog, [invocation |-> i,
                                     correlation_id |-> message.correlation_id,
                                     raised |-> raises])
    /\ escaped' = FALSE

\* handle_client_message as it would be without the two membership tests: the
\* lookup of an unknown correlation id raises KeyError.
handle_client_message_unchecked(message, raises) ==
    LET correlation_id == message.correlation_id
    IN /\ raises => message.listener
       /\ (message.listener /\ _listeners[correlation_id] # 0) => Len(eventLog) < MaxEvents
       /\ IF message.listener
          THEN IF _listeners[correlation_id] = 0
               THEN /\ escaped' = TRUE
                    /\ warned' = FALSE
                    /\ UNCHANGED <<eventLog, _pending, invocations, retryTimers>>
               ELSE /\ handle_event(_listeners[correlation_id], message, raises)
                    /\ warned' = FALSE
                    /\ UNCHANGED <<_pending, invocations, retryTimers>>
          ELSE IF _pending[correlation_id] = 0
               THEN /\ escaped' = TRUE
                    /\ warned' = FALSE
                    /\ UNCHANGED <<eventLog, _pending, invocations, retryTimers>>
               ELSE /\ _pending' = [_pending EXCEPT ![correlation_id] = 0]
                    /\ eventLog' = eventLog
                    /\ escaped' = FALSE
                    /\ warned' = FALSE
                    /\ IF message.type = "exception"
                       THEN handle_exception(_pending[correlation_id], message.error)
                       ELSE /\ invocations' =
                                 [invocations EXCEPT ![_pending[correlation_id]] =
                                      Invocation_set_response(@, message)]
                            /\ retryTimers' = retryTimers
       /\ UNCHANGED <<fvars, tvars, _listeners, _next_correlation_id, _is_redo_operation, now,
                      outbox, callback, partition_owner, load_balancer, ticks>>

\* InvocationService.handle_client_message; `raises` says whether the event
\* handler, if it is called, raises.
handle_client_message(message, raises) ==
    LET correlation_id == message.correlation_id
    IN /\ raises => message.listener
       /\ (message.listener /\ _listeners[correlation_id] # 0) => Len(eventLog) < MaxEvents
       /\ IF message.listener
          THEN IF _listeners[correlation_id] = 0
               THEN /\ escaped' = FALSE
                    /\ warned' = TRUE
                    /\ UNCHANGED <<eventLog, _pending, invocations, retryTimers>>
               ELSE /\ handle_event(_listeners[correlation_id], message, raises)
                    /\ warned' = FALSE
                    /\ UNCHANGED <<_pending, invocations, retryTimers>>
          ELSE IF _pending[correlation_id] = 0
               THEN /\ escaped' = FALSE
                    /\ warned' = TRUE
                    /\ UNCHANGED <<eventLog, _pending, invocations, retryTimers>>
               ELSE /\ _pending' = [_pending EXCEPT ![correlation_id] = 0]
                    /\ eventLog' = eventLog
                    /\ escaped' = FALSE
                    /\ warned' = FALSE
                    /\ IF message.type = "exception"
                       THEN handle_exception(_pending[correlation_id], message.error)
                       ELSE /\ invocations' =
                                 [invocations EXCEPT ![_pending[correlation_id]] =
                                      Invocation_set_response(@, message)]
                            /\ retryTimers' = retryTimers
       /\ UNCHANGED <<fvars, tvars, _listeners, _next_correlation_id, _is_redo_operation, now,
                      outbox, callback, partition_owner, load_balancer, ticks>>

\* The reactor fires the deadline timer of the i-th Invocation: on_timeout.
FireDeadlineTimer(i) ==
    /\ i \in 1 .. Len(invocations)
    /\ invocations[i].timer = "armed"
    /\ now >= invocations[i].timeout
    /\ invocations' = [invocations EXCEPT ![i] = [on_timeout(@) EXCEPT !.timer = "fired"]]
    /\ UNCHANGED <<fvars, tvars, warned, _pending, _listeners, _next_correlation_id, _is_redo_operation,
                   now, retryTimers, outbox, callback, partition_owner, load_balancer,
                   eventLog, escaped, ticks>>

\* The reactor fires a retry timer: functools.partial(self._invoke, invocation).
FireRetryTimer(timer) ==
    /\ timer \in retryTimers
    /\ now >= timer.at
    /\ retryTimers' = retryTimers \ {timer}
    /\ _invoke(timer.invocation, invocations)
    /\ UNCHANGED <<fvars, tvars, warned, _is_redo_operation, now, partition_owner, eventLog, escaped, ticks>>

\* connection_closed as it would be if it failed only the pending invocations
\* that carry no event handler.
connection_closed_sparing_listeners(connection) ==
    /\ invocations' =
         [i \in 1 .. Len(invocations) |->
            IF /\ \E c \in CorrelationIds : _pending[c] = i
               /\ invocations[i].connection = connection
               /\ ~ has_event_handler(invocations[i])
            THEN Invocation_set_exception(invocations[i], ConnectionClosedError)
            ELSE invocations[i]]
    /\ _listeners' =
         [c \in CorrelationIds |->
            IF _listeners[c] # 0 /\ invocations[_listeners[c]].connection = connection
            THEN 0 ELSE _listeners[c]]
    /\ UNCHANGED <<fvars, tvars, warned, _pending, _next_correlation_id, _is_redo_operation, now,
                   retryTimers, outbox, callback, partition_owner, load_balancer, eventLog,
                   escaped, ticks>>

\* connection_closed as it would be if it went by the connection an invocation
\* was sent on instead of the one it is bound to.
connection_closed_by_route(connection) ==
    /\ invocations' =
         [i \in 1 .. Len(invocations) |->
            IF /\ \E c \in CorrelationIds : _pending[c] = i
               /\ \E k \in 1 .. Len(outbox) :
                     outbox[k].invocation = i /\ outbox[k].connection = connection
            THEN Invocation_set_exception(invocations[i], ConnectionClosedError)
            ELSE invocations[i]]
    /\ _listeners' =
         [c \in CorrelationIds |->
            IF _listeners[c] # 0 /\ invocations[_listeners[c]].connection = connection
            THEN 0 ELSE _listeners[c]]
    /\ UNCHANGED <<fvars, tvars, warned, _pending, _next_correlation_id,
                   _is_redo_operation, now, retryTimers, outbox, callback,
                   partition_owner, load_balancer, eventLog, escaped, ticks>>

\* InvocationService.connection_closed
connection_closed(connection) ==
    /\ invocations' =
         [i \in 1 .. Len(invocations) |->
            IF /\ \E c \in CorrelationIds : _pending[c] = i
               /\ invocations[i].connection = connection
            THEN Invocation_set_exception(invocations[i], ConnectionClosedError)
            ELSE invocations[i]]
    /\ _listeners' =
         [c \in CorrelationIds |->
            IF _listeners[c] # 0 /\ invocations[_listeners[c]].connection = connection
            THEN 0 ELSE _listeners[c]]
    /\ UNCHANGED <<fvars, tvars, warned, _pending, _next_correlation_id, _is_redo_operation, now,
                   retryTimers, outbox, callback, partition_owner, load_balancer, eventLog,
                   escaped, ticks>>

\* time.time() is seen to have advanced.  The clock is read from the first
\* Invocation.__init__ on, where the model's time starts.
Tick(seconds) ==
    /\ invocations # <<>>
    /\ ticks < MaxTicks
    /\ ticks' = ticks + 1
    /\ now' = now + seconds
    /\ UNCHANGED <<fvars, tvars, warned, invocations, _pending, _listeners, _next_correlation_id,
                   _is_redo_operation, retryTimers, outbox, callback, partition_owner,
                   load_balancer, eventLog, escaped>>

\* Time passes until the deadline of the i-th Invocation, whose timer is armed
\* and not yet due.
DeadlineArrives(i) ==
    /\ i \in 1 .. Len(invocations)
    /\ invocations[i].timer = "armed"
    /\ now < invocations[i].timeout
    /\ now' = invocations[i].timeout
    /\ UNCHANGED <<fvars, tvars, warned, invocations, _pending, _listeners,
                   _next_correlation_id, _is_redo_operation, retryTimers, outbox,
                   callback, partition_owner, load_balancer, eventLog, escaped, ticks>>

\* The cluster moves a partition to another owner.
MigratePartition(partition_id, address) ==
    /\ partition_owner[partition_id] # address
    /\ partition_owner' = [partition_owner EXCEPT ![partition_id] = address]
    /\ UNCHANGED <<fvars, tvars, warned, invocations, _pending, _listeners, _next_correlation_id,
                   _is_redo_operation, now, retryTimers, outbox, callback,
                   load_balancer, eventLog, escaped, ticks>>

\* --------------------------------------- _send, statement by statement
\* The caller threads that run invoke_on_connection at the same time.
Senders == {"s1", "s2"}

CallersInit ==
    /\ spc = [t \in Senders |-> "idle"]
    /\ slocal = [t \in Senders |-> [invocation |-> 0, correlation_id |-> 0,
                                    connection |-> NoConnection]]

\* _send as it would be with the hand-off to the connection made before the
\* registry entries are written.
next_statement_handoff_first(at) ==
    CASE at = "begin" -> "handoff"
      [] at = "handoff" -> "pending"
      [] at = "pending" -> "timer"
      [] at = "timer" -> "listener"
      [] OTHER -> "idle"

\* The order of _send's statements after the correlation id is taken and
\* stamped: self._pending[correlation_id] = invocation, the deadline timer,
\* self._listeners[correlation_id] = invocation, connection.send_message.
next_statement(at) ==
    CASE at = "begin" -> "pending"
      [] at = "pending" -> "timer"
      [] at = "timer" -> "listener"
      [] at = "listener" -> "handoff"
      [] OTHER -> "idle"

\* Thread t calls invoke_on_connection: Invocation.__init__, _invoke takes the
\* has_connection branch, and _send takes the next correlation id and stamps
\* the request with it and with the partition id.
SendBegin(t, connection, event_handler) ==
    LET got == increment_and_get(_next_correlation_id)
        inv == Invocation(Request(FALSE), NoPartition, NoAddress, connection, event_handler)
    IN /\ spc[t] = "idle"
       /\ Len(invocations) < invocationLimit
       /\ got.id <= MaxCorrelationId
       /\ _next_correlation_id' = got.counter
       /\ invocations' = Append(invocations,
              [inv EXCEPT !.request.correlation_id = got.id,
                          !.request.partition_id = inv.partition_id])
       /\ slocal' = [slocal EXCEPT ![t] = [invocation |-> Len(invocations) + 1,
                                           correlation_id |-> got.id,
                                           connection |-> connection]]
       /\ spc' = [spc EXCEPT ![t] = next_statement("begin")]
       /\ UNCHANGED <<fvars, invocationLimit, warned, _pending, _listeners, _is_redo_operation,
                      now, retryTimers, outbox, callback, partition_owner,
                      load_balancer, eventLog, escaped, ticks>>

\* self._pending[correlation_id] = invocation
SendPending(t) ==
    /\ spc[t] = "pending"
    /\ _pending' = [_pending EXCEPT ![slocal[t].correlation_id] = slocal[t].invocation]
    /\ spc' = [spc EXCEPT ![t] = next_statement("pending")]
    /\ UNCHANGED <<fvars, invocationLimit, warned, slocal, invocations, _listeners,
                   _next_correlation_id, _is_redo_operation, now, retryTimers, outbox,
                   callback, partition_owner, load_balancer, eventLog, escaped, ticks>>

\* if not invocation.timer: invocation.timer = reactor.add_timer_absolute(...)
SendTimer(t) ==
    /\ spc[t] = "timer"
    /\ invocations' = [invocations EXCEPT ![slocal[t].invocation] =
                           IF @.timer = NoTimer
                           THEN [@ EXCEPT !.timer = "armed",
                                          !.armed = Append(@, invocations[slocal[t].invocation].timeout)]
                           ELSE @]
    /\ spc' = [spc EXCEPT ![t] = next_statement("timer")]
    /\ UNCHANGED <<fvars, invocationLimit, warned, slocal, _pending, _listeners,
                   _next_correlation_id, _is_redo_operation, now, retryTimers, outbox,
                   callback, partition_owner, load_balancer, eventLog, escaped, ticks>>

\* if invocation.has_event_handler(): self._listeners[correlation_id] = invocation
SendListener(t) ==
    /\ spc[t] = "listener"
    /\ _listeners' = IF has_event_handler(invocations[slocal[t].invocation])
                     THEN [_listeners EXCEPT ![slocal[t].correlation_id] =
                               slocal[t].invocation]
                     ELSE _listeners
    /\ spc' = [spc EXCEPT ![t] = next_statement("listener")]
    /\ UNCHANGED <<fvars, invocationLimit, warned, slocal, invocations, _pending,
                   _next_correlation_id, _is_redo_operation, now, retryTimers, outbox,
                   callback, partition_owner, load_balancer, eventLog, escaped, ticks>>

\* connection.callback is set if it is not, and connection.send_message(message)
SendHandOff(t) ==
    /\ spc[t] = "handoff"
    /\ callback' = [callback EXCEPT ![slocal[t].connection] = TRUE]
    /\ outbox' = Append(outbox, [correlation_id |-> slocal[t].correlation_id,
                                 partition_id |-> NoPartition,
                                 invocation |-> slocal[t].invocation,
                                 connection |-> slocal[t].connection])
    /\ spc' = [spc EXCEPT ![t] = next_statement("handoff")]
    /\ UNCHANGED <<fvars, invocationLimit, warned, slocal, invocations, _pending, _listeners,
                   _next_correlation_id, _is_redo_operation, now, retryTimers,
                   partition_owner, load_balancer, eventLog, escaped, ticks>>

\* The connection's reader thread calls connection.callback with a message the
\* member sent for a request that was handed to a connection.
Deliver(message, raises) ==
    /\ \E k \in 1 .. Len(outbox) : outbox[k].correlation_id = message.correlation_id
    /\ handle_client_message(message, raises)

NextSend ==
    \/ \E t \in Senders, c \in Connections, h \in BOOLEAN : SendBegin(t, c, h)
    \/ \E t \in Senders : SendPending(t)
    \/ \E t \in Senders : SendTimer(t)
    \/ \E t \in Senders : SendListener(t)
    \/ \E t \in Senders : SendHandOff(t)
    \/ \E m \in Messages, raises \in BOOLEAN : Deliver(m, raises)

Next ==
    \/ \E r \in BOOLEAN, c \in Connections, h \in BOOLEAN : invoke_on_connection(r, c, h)
    \/ \E r \in BOOLEAN, p \in Partitions, h \in BOOLEAN : invoke_on_partition(r, p, h)
    \/ \E r \in BOOLEAN, h \in BOOLEAN : invoke_on_random_target(r, h)
    \/ \E r \in BOOLEAN, a \in Addresses, h \in BOOLEAN : invoke_on_target(r, a, h)
    \/ \E p \in Partitions \cup {NoPartition}, a \in Addresses \cup {NoAddress},
          c \in Connections \cup {NoConnection} : invoke_built(p, a, c)
    \/ \E m \in Messages, raises \in BOOLEAN : handle_client_message(m, raises)
    \/ \E i \in 1 .. MaxInvocations : FireDeadlineTimer(i)
    \/ \E t \in retryTimers : FireRetryTimer(t)
    \/ \E c \in Connections : connection_closed(c)
    \/ \E d \in {RETRY_WAIT_TIME_IN_SECONDS, INVOCATION_TIMEOUT} : Tick(d)
    \/ \E p \in Partitions, a \in Addresses : MigratePartition(p, a)

\* The messages that answer a request: responses and encoded exceptions.
Replies == {m \in Messages : ~ m.listener}

\* The service with callers that create MaxConcurrent invocations: the four
\* entry points, the replies, the retry timers and connection teardown.
NextConcurrent ==
    \/ \E c \in Connections, h \in BOOLEAN : invoke_on_connection(FALSE, c, h)
    \/ \E p \in Partitions, h \in BOOLEAN : invoke_on_partition(FALSE, p, h)
    \/ \E h \in BOOLEAN : invoke_on_random_target(FALSE, h)
    \/ \E a \in Addresses, h \in BOOLEAN : invoke_on_target(FALSE, a, h)
    \/ \E m \in Replies : handle_client_message(m, FALSE)
    \/ \E t \in retryTimers : FireRetryTimer(t)
    \/ \E c \in Connections : connection_closed(c)
    \/ Tick(RETRY_WAIT_TIME_IN_SECONDS)

\* The service with a clock that moves a whole INVOCATION_TIMEOUT at a time or
\* up to the next deadline.
NextLive ==
    \/ \E r \in BOOLEAN, c \in Connections : invoke_on_connection(r, c, FALSE)
    \/ \E r \in BOOLEAN, p \in Partitions : invoke_on_partition(r, p, FALSE)
    \/ \E r \in BOOLEAN : invoke_on_random_target(r, FALSE)
    \/ \E r \in BOOLEAN, a \in Addresses : invoke_on_target(r, a, FALSE)
    \/ \E m \in Replies : handle_client_message(m, FALSE)
    \/ \E i \in 1 .. MaxInvocations : FireDeadlineTimer(i)
    \/ \E t \in retryTimers : FireRetryTimer(t)
    \/ \E c \in Connections : connection_closed(c)
    \/ Tick(INVOCATION_TIMEOUT)
    \/ \E i \in 1 .. MaxInvocations : DeadlineArrives(i)

NextFuture ==
    \E t \in Threads :
        \/ \E v \in Values : SetResultStore(t, v)
        \/ \E e \in Exceptions : SetExceptionStore(t, e)
        \/ EventSet(t)
        \/ InvokeCallbacks(t)
        \/ InvokeCallbacksEnd(t)
        \/ ContinuationSet(t)
        \/ AddDoneCallback(t)
        \/ \E func \in ContinuationFuncs : ContinueWith(t, func)
        \/ CheckDone(t)
        \/ InvokeNow(t)

\* ------------------------------------------------- claims on the Future
\* What the first set_result / set_exception call stored, as result() gives it.
FirstOutcome ==
    IF calls[1].op = "set_result"
    THEN <<"return", calls[1].value>>
    ELSE <<"raise", calls[1].error>>

\* How many times callback cb has been invoked.
Runs(cb) == Cardinality({k \in 1 .. Len(cbLog) : cbLog[k] = cb})

Quiescent == \A t \in Threads : pc[t] = "idle"

\* C1: of the set_result / set_exception calls made on one Future only the first
\* has effect: result() gives what the first call stored whatever calls follow,
\* done() stays true, and no callback is run a second time.
C1_OnlyFirstCallHasEffect ==
    /\ calls # <<>> => result(future) = FirstOutcome
    /\ (Len(calls) > 1 /\ Quiescent) => done(future)
    /\ pc["adder"] = "idle" =>
          \A cb \in 1 .. Len(future._callbacks) : Runs(cb) <= 1

\* C4: every callback given to add_done_callback runs exactly once, in every
\* interleaving of the registration with the resolution; stated here for runs
\* in which the Future is resolved by a single call: no callback runs twice,
\* and once both threads are back and the Future is done each has run.
C4_EachCallbackRunsOnce ==
    Len(calls) <= 1 =>
        \A cb \in 1 .. Len(future._callbacks) :
            /\ Runs(cb) <= 1
            /\ (Quiescent /\ done(future)) => Runs(cb) = 1

\* C5 as claimed: with base resolved by a single call and both threads back,
\* c has f's outcome on the value when base holds a value, and when base holds
\* an error f was never invoked and c holds that same error.
C5_FuncSkippedOnError ==
    (Quiescent /\ contCb # 0 /\ Len(calls) = 1 /\ done(future)) =>
        IF calls[1].op = "set_result"
        THEN result(contFuture) =
               CASE contFunc = "inc" -> <<"return", calls[1].value + 10>>
                 [] contFunc = "const" -> <<"return", 7>>
                 [] OTHER -> <<"raise", "FuncError">>
        ELSE fLog = <<>> /\ result(contFuture) = <<"raise", calls[1].error>>

\* What the three functions give for a Future whose result() is r.
C5_Expected(func, r) ==
    CASE func = "inc" -> IF r[1] = "raise" THEN r ELSE <<"return", r[2] + 10>>
      [] func = "const" -> <<"return", 7>>
      [] OTHER -> <<"raise", "FuncError">>

\* C5, amended: every run of continue_with's callback invokes f on the base
\* Future itself, whether base holds a value or an error, and then calls
\* c.set_result with what f returned or c.set_exception with what f raised.
C5_FuncInvokedOnFuture ==
    [][\A t \in Threads :
        /\ (pc[t] # "cont_set" /\ pc'[t] = "cont_set") =>
              /\ fLog' = Append(fLog, result(future))
              /\ local'[t].ret = C5_Expected(contFunc, result(future))
        /\ (pc[t] = "cont_set" /\ pc'[t] # "cont_set") =>
              /\ contFuture'._event
              /\ IF local[t].ret[1] = "raise"
                 THEN /\ contFuture'._exception = local[t].ret[2]
                      /\ contFuture'._result = contFuture._result
                 ELSE /\ contFuture'._result = local[t].ret[2]
                      /\ contFuture'._exception = contFuture._exception]_vars

\* C5 witness: base resolved with an error, a continuation that does not read
\* it was invoked all the same, and c holds the value it returned.
C5_Witness ==
    /\ Quiescent /\ Len(calls) = 1 /\ calls[1].op = "set_exception"
    /\ contCb # 0 /\ contFunc = "const"
    /\ fLog = <<<<"raise", calls[1].error>>>>
    /\ result(contFuture) = <<"return", 7>>

\* ------------------------------------------------ claims on the service
Created == 1 .. Len(invocations)

\* The exception messages (not events) for a correlation id that is pending.
PendingFailures ==
    {m \in Messages : m.type = "exception" /\ _pending[m.correlation_id] # 0}

\* The retry timer try_retry adds for the i-th Invocation.
RetryTimer(i) == [invocation |-> i, at |-> now + RETRY_WAIT_TIME_IN_SECONDS]

\* C2: whichever of response delivery, deadline timer and connection_closed
\* reaches an invocation first resolves it and the others do nothing: once the
\* future of an invocation is resolved, what it holds never changes.
C2_ResolvedByOnePath ==
    [][\A i \in Created :
          done(invocations[i].future) => invocations'[i].future = invocations[i].future]_vars

\* C3: no invocation whose future is resolved is still in the pending table.
C3_NoResolvedInvocationPending ==
    \A c \in CorrelationIds :
        _pending[c] # 0 => ~ done(invocations[_pending[c]].future)

\* C6: every routing decision (a new invocation, or a retry timer firing) makes
\* exactly one send, and every send goes to the bound connection if there is
\* one, else to the owner of the partition at that moment, else to the explicit
\* address, else to the address the load balancer returns.
C6_RoutingPriority ==
    [][/\ (\/ Len(invocations') > Len(invocations)
           \/ (retryTimers' \subseteq retryTimers /\ retryTimers' # retryTimers))
          => Len(outbox') = Len(outbox) + 1
       /\ outbox' # outbox =>
          /\ Len(outbox') = Len(outbox) + 1
          /\ \A k \in 1 .. Len(outbox) : outbox'[k] = outbox[k]
          /\ LET m == outbox'[Len(outbox')]
                 inv == invocations'[m.invocation]
             IN m.connection =
                  IF inv.connection # NoConnection THEN inv.connection
                  ELSE IF inv.partition_id >= 0
                       THEN get_or_connect(partition_owner[inv.partition_id])
                  ELSE IF inv.address # NoAddress THEN get_or_connect(inv.address)
                  ELSE get_or_connect(load_balancer)]_vars

\* C6 witness: an invocation that carries a connection, a partition id and an
\* address was sent on its connection, which is neither the partition owner's
\* nor the address's.
C6_Witness ==
    \E k \in 1 .. Len(outbox) :
        LET inv == invocations[outbox[k].invocation]
        IN /\ inv.connection # NoConnection
           /\ inv.partition_id >= 0 /\ inv.address # NoAddress
           /\ get_or_connect(partition_owner[inv.partition_id]) # inv.connection
           /\ get_or_connect(inv.address) # inv.connection
           /\ outbox[k].connection = inv.connection

\* A transport failure being handled for a partition-routed invocation.
PartitionRoutedTransportFailures ==
    {m \in PendingFailures :
        /\ IsTransportError(m.error)
        /\ has_partition_id(invocations[_pending[m.correlation_id]])
        /\ ~ has_connection(invocations[_pending[m.correlation_id]])}

\* C7 as claimed: a transport failure handled for a partition-routed
\* invocation schedules a retry and leaves the future alone while the deadline
\* has not passed, and once it has passed schedules nothing and resolves the
\* future with a timeout error.
C7_TimeoutErrorAfterDeadline ==
    [][\A m \in PartitionRoutedTransportFailures :
          LET i == _pending[m.correlation_id]
          IN handle_client_message(m, FALSE) =>
               IF invocations[i].timeout < now
               THEN /\ retryTimers' = retryTimers
                    /\ result(invocations'[i].future) = <<"raise", TimeoutError>>
               ELSE /\ retryTimers' = retryTimers \cup {RetryTimer(i)}
                    /\ invocations'[i].future = invocations[i].future]_vars

\* C7, amended: ... once the deadline has passed it schedules nothing and
\* resolves the future with the transport error it was handling.
C7_TransportErrorAfterDeadline ==
    [][\A m \in PartitionRoutedTransportFailures :
          LET i == _pending[m.correlation_id]
          IN handle_client_message(m, FALSE) =>
               IF invocations[i].timeout < now
               THEN /\ retryTimers' = retryTimers
                    /\ done(invocations'[i].future)
                    /\ result(invocations'[i].future) = <<"raise", m.error>>
               ELSE /\ retryTimers' = retryTimers \cup {RetryTimer(i)}
                    /\ RetryTimer(i) \notin retryTimers
                    /\ invocations'[i].future = invocations[i].future]_vars

\* C7 witness: a partition-routed invocation past its deadline whose future
\* holds the transport error, with no retry scheduled.
C7_Witness ==
    \E i \in Created :
        /\ has_partition_id(invocations[i]) /\ ~ has_connection(invocations[i])
        /\ invocations[i].timeout < now
        /\ result(invocations[i].future) = <<"raise", "IOError">>
        /\ retryTimers = {}

\* C8: a failure the protocol marks retryable that is no transport failure
\* fails the invocation at once when neither the request is retryable nor redo
\* is on, and is retried (the future left alone) when one of them is, the
\* invocation has no bound connection and the deadline has not passed; a
\* failure that is neither transport nor retryable always fails the invocation.
C8_RetryableErrorPolicy ==
    [][\A m \in PendingFailures :
          LET i == _pending[m.correlation_id]
              inv == invocations[i]
              fails == /\ retryTimers' = retryTimers
                       /\ done(invocations'[i].future)
                       /\ result(invocations'[i].future) = <<"raise", m.error>>
          IN (~ IsTransportError(m.error) /\ handle_client_message(m, FALSE)) =>
               /\ (is_retryable_error(m.error) /\ ~ inv.request.retryable
                      /\ ~ _is_redo_operation) => fails
               /\ (is_retryable_error(m.error)
                      /\ (inv.request.retryable \/ _is_redo_operation)
                      /\ inv.connection = NoConnection /\ ~ (inv.timeout < now)) =>
                     /\ retryTimers' = retryTimers \cup {RetryTimer(i)}
                     /\ RetryTimer(i) \notin retryTimers
                     /\ invocations'[i].future = invocations[i].future
               /\ ~ is_retryable_error(m.error) => fails]_vars

\* C8 witness: with redo off, a request that is not retryable has failed with
\* the retryable error, before its deadline, and nothing is scheduled.
C8_Witness ==
    \E i \in Created :
        /\ ~ _is_redo_operation /\ ~ invocations[i].request.retryable
        /\ ~ has_connection(invocations[i])
        /\ ~ (invocations[i].timeout < now)
        /\ result(invocations[i].future) = <<"raise", "RetryableError">>
        /\ retryTimers = {}

\* C9: a response (no event, no exception) for a pending correlation id removes
\* the entry and leaves the future resolved with that message as its result; a
\* response for an id that is not pending changes nothing.
C9_ResponseIsTheResult ==
    [][\A m \in {r \in Messages : r.type = "response"} :
          handle_client_message(m, FALSE) =>
             LET i == _pending[m.correlation_id]
             IN IF i # 0
                THEN /\ _pending'[m.correlation_id] = 0
                     /\ done(invocations'[i].future)
                     /\ result(invocations'[i].future) = <<"return", m>>
                ELSE UNCHANGED <<invocations, _pending, _listeners, retryTimers>>]_vars

\* C10: an event message for a correlation id in the listener table calls that
\* invocation's handler once, in arrival order, leaves it registered and lets
\* nothing escape, whether the handler raises or not; no event message removes
\* a pending entry or touches a future.
C10_EventsReachTheHandler ==
    [][\A m \in {e \in Messages : e.listener}, raises \in BOOLEAN :
          handle_client_message(m, raises) =>
             /\ _pending' = _pending
             /\ invocations' = invocations
             /\ _listeners' = _listeners
             /\ ~ escaped'
             /\ IF _listeners[m.correlation_id] # 0
                THEN /\ Len(eventLog') = Len(eventLog) + 1
                     /\ \A k \in 1 .. Len(eventLog) : eventLog'[k] = eventLog[k]
                     /\ eventLog'[Len(eventLog')].invocation = _listeners[m.correlation_id]
                     /\ eventLog'[Len(eventLog')].correlation_id = m.correlation_id
                ELSE eventLog' = eventLog]_vars

\* C10 witness: two events were handled for one invocation, the first with a
\* handler that raised, and the invocation is still in the listener table.
C10_Witness ==
    /\ Len(eventLog) >= 2
    /\ eventLog[1].raised
    /\ eventLog[2].invocation = eventLog[1].invocation
    /\ eventLog[2].correlation_id = eventLog[1].correlation_id
    /\ _listeners[eventLog[1].correlation_id] = eventLog[1].invocation
    /\ ~ escaped

\* Whether the i-th Invocation is in the pending table, in the listener table.
Pending(i) == \E k \in CorrelationIds : _pending[k] = i
Listening(i) == \E k \in CorrelationIds : _listeners[k] = i

\* Two invocations bound to connection c are pending, a plain one and one that
\* carries an event handler and is in the listener table.
BoundPairPending(c) ==
    \E i, j \in Created :
        /\ invocations[i].connection = c /\ invocations[j].connection = c
        /\ ~ has_event_handler(invocations[i]) /\ has_event_handler(invocations[j])
        /\ Pending(i) /\ Pending(j) /\ Listening(j)

\* C11 as claimed: connection_closed(c) with a plain and a listener invocation
\* bound to c pending resolves the future of the plain one with the
\* connection-closed error, and takes the listener one out of the listener
\* table without resolving its future or any other.
C11_ListenerFutureNotResolved ==
    [][\A c \in Connections :
          (BoundPairPending(c) /\ connection_closed(c)) =>
             \A i \in Created :
                /\ (invocations[i].connection = c /\ has_event_handler(invocations[i]))
                      => \A k \in CorrelationIds : _listeners'[k] # i
                /\ IF /\ invocations[i].connection = c /\ Pending(i)
                      /\ ~ has_event_handler(invocations[i])
                   THEN /\ done(invocations'[i].future)
                        /\ result(invocations'[i].future) =
                              <<"raise", ConnectionClosedError>>
                   ELSE invocations'[i].future = invocations[i].future]_vars

\* C11, amended: connection_closed(c) resolves with the connection-closed error
\* the future of every invocation bound to c that is in the pending table, the
\* ones that carry an event handler included, takes every invocation bound to
\* c out of the listener table, and leaves every other invocation as it was.
C11_PendingListenerFailsToo ==
    [][\A c \in Connections :
          connection_closed(c) =>
             \A i \in Created :
                /\ invocations[i].connection = c
                      => \A k \in CorrelationIds : _listeners'[k] # i
                /\ IF invocations[i].connection = c /\ Pending(i)
                   THEN /\ done(invocations'[i].future)
                        /\ result(invocations'[i].future) =
                              <<"raise", ConnectionClosedError>>
                   ELSE invocations'[i] = invocations[i]]_vars

\* C11 witness: a plain and a listener invocation bound to the same connection,
\* both still pending, both failed with the connection-closed error, and the
\* listener one gone from the listener table.
C11_Witness ==
    \E i, j \in Created :
        /\ invocations[i].connection # NoConnection
        /\ invocations[j].connection = invocations[i].connection
        /\ ~ has_event_handler(invocations[i]) /\ has_event_handler(invocations[j])
        /\ Pending(i) /\ Pending(j) /\ ~ Listening(j)
        /\ result(invocations[i].future) = <<"raise", ConnectionClosedError>>
        /\ result(invocations[j].future) = <<"raise", ConnectionClosedError>>

\* The sends made so far for the i-th Invocation, as positions in the outbox.
Sends(i, box) == {k \in 1 .. Len(box) : box[k].invocation = i}

\* C12: an invocation with a bound connection is sent at most once and only on
\* that connection, no retry is ever scheduled for it, and every failure
\* handled for it (transport, retryable or other) resolves its future with
\* that error.
C12_BoundInvocationNeverRetried ==
    [][/\ \A i \in 1 .. Len(invocations') :
             has_connection(invocations'[i]) =>
                /\ Cardinality(Sends(i, outbox')) <= 1
                /\ \A k \in Sends(i, outbox') :
                      outbox'[k].connection = invocations'[i].connection
                /\ \A t \in retryTimers' : t.invocation # i
       /\ \A m \in PendingFailures :
             LET i == _pending[m.correlation_id]
             IN (has_connection(invocations[i]) /\ handle_client_message(m, FALSE)) =>
                   /\ retryTimers' = retryTimers
                   /\ done(invocations'[i].future)
                   /\ result(invocations'[i].future) = <<"raise", m.error>>]_vars

\* C12 witness: a retryable request sent on its bound connection failed, before
\* its deadline, with an error that is both a transport failure and retryable;
\* it was sent once and nothing is scheduled.
C12_Witness ==
    \E i \in Created :
        /\ has_connection(invocations[i]) /\ invocations[i].request.retryable
        /\ ~ (invocations[i].timeout < now)
        /\ result(invocations[i].future) = <<"raise", "HazelcastInstanceNotActiveError">>
        /\ Cardinality(Sends(i, outbox)) = 1
        /\ retryTimers = {}

\* C13: whenever a message has been handed to a connection, the invocation is
\* in the pending table under that message's correlation id (until a reply for
\* that id is handled) and, if it carries an event handler, in the listener
\* table too; so a reply or an event delivered after the hand-off, however the
\* sender threads are interleaved with the reader, finds its entry.
C13_RegisteredBeforeHandOff ==
    [][/\ \A k \in 1 .. Len(outbox') :
             LET i == outbox'[k].invocation
                 id == outbox'[k].correlation_id
             IN /\ _pending'[id] = i \/ done(invocations'[i].future)
                /\ has_event_handler(invocations'[i]) => _listeners'[id] = i
       /\ \A m \in Messages, raises \in BOOLEAN :
             Deliver(m, raises) =>
                \A k \in 1 .. Len(outbox) :
                   outbox[k].correlation_id = m.correlation_id =>
                      LET i == outbox[k].invocation
                      IN IF m.listener
                         THEN has_event_handler(invocations[i]) =>
                                 /\ _listeners[m.correlation_id] = i
                                 /\ Len(eventLog') = Len(eventLog) + 1
                         ELSE ~ done(invocations[i].future) =>
                                 /\ _pending[m.correlation_id] = i
                                 /\ _pending'[m.correlation_id] = 0
                                 /\ done(invocations'[i].future)]_vars

\* C13 witness: while one caller thread is still inside _send, between writing
\* its pending entry and the hand-off, the response to the other thread's
\* request was delivered and became the result, and an event reached the handler.
C13_Witness ==
    \E t \in Senders, i \in Created :
        /\ spc[t] \in {"timer", "listener", "handoff"}
        /\ slocal[t].invocation # i
        /\ has_event_handler(invocations[i])
        /\ result(invocations[i].future)[1] = "return"
        /\ result(invocations[i].future)[2].correlation_id =
              invocations[i].request.correlation_id
        /\ done(invocations[i].future)
        /\ \E k \in 1 .. Len(eventLog) : eventLog[k].invocation = i

\* C14: every send, a first attempt or a retry, carries a correlation id above
\* every id handed out before it; no pending entry exists under the new id
\* when it is written, and a pending entry keeps its invocation until it is
\* popped.
C14_FreshCorrelationIdPerSend ==
    [][/\ outbox' # outbox =>
             LET id == outbox'[Len(outbox')].correlation_id
             IN /\ Len(outbox') = Len(outbox) + 1
                /\ \A k \in 1 .. Len(outbox) : outbox[k].correlation_id < id
                /\ _pending[id] = 0
                /\ _pending'[id] = outbox'[Len(outbox')].invocation
                /\ invocations'[_pending'[id]].request.correlation_id = id
       /\ \A id \in CorrelationIds :
             _pending[id] # 0 => _pending'[id] \in {0, _pending[id]}]_vars

\* C14 witness: an invocation was sent, another one was sent, and the first was
\* sent again as a retry: three ids, and the two invocations are pending under
\* the last two.
C14_Witness ==
    /\ Len(outbox) = 3
    /\ outbox[1].invocation = outbox[3].invocation
    /\ outbox[2].invocation # outbox[1].invocation
    /\ outbox[1].correlation_id < outbox[2].correlation_id
    /\ outbox[2].correlation_id < outbox[3].correlation_id
    /\ _pending[outbox[2].correlation_id] = outbox[2].invocation
    /\ _pending[outbox[3].correlation_id] = outbox[3].invocation

\* C15: over the life of an invocation at most one deadline timer is armed for
\* it, at its original deadline, which never moves; scheduling a retry and
\* re-sending leave the timer as it is, and no retry is scheduled once the
\* deadline has passed.
C15_OneDeadlineTimer ==
    [][/\ \A i \in 1 .. Len(invocations') :
             /\ Len(invocations'[i].armed) <= 1
             /\ \A k \in 1 .. Len(invocations'[i].armed) :
                   invocations'[i].armed[k] = invocations'[i].timeout
       /\ \A i \in Created :
             /\ invocations'[i].timeout = invocations[i].timeout
             /\ invocations'[i].armed = invocations[i].armed
             /\ invocations'[i].timer = "armed" => invocations[i].timer = "armed"
             /\ (\E t \in retryTimers' \ retryTimers : t.invocation = i) =>
                   /\ invocations'[i] = invocations[i]
                   /\ ~ (invocations[i].timeout < now)
             /\ Cardinality(Sends(i, outbox')) > Cardinality(Sends(i, outbox)) =>
                   invocations'[i].timer = invocations[i].timer]_vars

\* C15 witness: an invocation was sent, retried and sent again, and its one
\* timer, armed at the first send for the original deadline, is still armed.
C15_Witness ==
    \E i \in Created :
        /\ Cardinality(Sends(i, outbox)) >= 2
        /\ invocations[i].armed = <<invocations[i].timeout>>
        /\ invocations[i].timer = "armed"
        /\ \E t \in retryTimers : t.invocation = i

\* A message whose correlation id handle_client_message does not know: an
\* event for an id that is not in the listener table, or a reply for an id
\* that is not in the pending table.
UnknownCorrelationId(m) ==
    IF m.listener THEN _listeners[m.correlation_id] = 0
    ELSE _pending[m.correlation_id] = 0

\* C16: handle_client_message for an unknown correlation id changes neither
\* table, no future, no timer and not the counter, calls no handler, schedules
\* no retry and sends nothing; it logs a warning and raises nothing.
C16_UnknownIdChangesNothing ==
    [][\A m \in Messages, raises \in BOOLEAN :
          (UnknownCorrelationId(m) /\ handle_client_message(m, raises)) =>
             /\ UNCHANGED <<invocations, _pending, _listeners, _next_correlation_id,
                            retryTimers, eventLog, outbox>>
             /\ warned'
             /\ ~ escaped']_vars

\* C16 witness: the invocation was answered and is out of the pending table,
\* and the message handled last, for the one id that was ever sent, was
\* dropped with a warning.
C16_Witness ==
    /\ warned /\ ~ escaped
    /\ Len(outbox) = 1
    /\ \E i \in Created :
          /\ ~ Pending(i)
          /\ result(invocations[i].future)[1] = "return"
          /\ done(invocations[i].future)

\* C17: a deadline timer is armed from the first send on, it is cancelled or
\* fired only together with the future being resolved, and so, with a reactor
\* that fires every due timer that is still armed, every invocation that was
\* sent ends with a resolved future.
C17_EverySentInvocationResolves ==
    /\ [](\A i \in Created :
             /\ invocations[i].timer # NoTimer
             /\ invocations[i].timer # "armed" => done(invocations[i].future))
    /\ \A i \in 1 .. MaxInvocations :
          (Len(invocations) >= i) ~> (Len(invocations) >= i /\ done(invocations[i].future))

\* C17 witness: an invocation that was retried, never got a terminal reply and
\* is still pending was resolved with the timeout error by its timer firing.
C17_Witness ==
    \E i \in Created :
        /\ invocations[i].timer = "fired"
        /\ result(invocations[i].future) = <<"raise", TimeoutError>>
        /\ Cardinality(Sends(i, outbox)) >= 2
        /\ Pending(i)

\* C18: an invocation with an event handler is in the listener table under at
\* most one correlation id, the id of its latest send.
C18_ListenerUnderLatestIdOnly ==
    \A i \in Created :
        /\ Cardinality({k \in CorrelationIds : _listeners[k] = i}) <= 1
        /\ \A k \in CorrelationIds :
              _listeners[k] = i => k = invocations[i].request.correlation_id

\* C19: once the future of an invocation is resolved, no message is sent for
\* it and no pending entry is written for it.
C19_NoSendAfterResolution ==
    [][\A i \in Created :
          done(invocations[i].future) =>
             /\ Sends(i, outbox') = Sends(i, outbox)
             /\ \A k \in CorrelationIds : _pending'[k] = i => _pending[k] = i]_vars

\* C20: connection_closed(c) leaves every invocation that is not bound to c as
\* it was, whatever connection it was sent on, leaves the listener entries of
\* those invocations, and leaves the whole pending table, so its keys, as it was.
C20_TeardownTouchesBoundOnly ==
    [][\A c \in Connections :
          connection_closed(c) =>
             /\ \A i \in Created :
                   invocations[i].connection # c => invocations'[i] = invocations[i]
             /\ \A k \in CorrelationIds :
                   (_listeners[k] # 0 /\ invocations[_listeners[k]].connection # c) =>
                      _listeners'[k] = _listeners[k]
             /\ _pending' = _pending]_vars

\* C20 witness: connection_closed failed the invocation bound to a connection,
\* while a listener invocation sent on that same connection by routing, not
\* bound to it, is still pending, still listening and unresolved.
C20_Witness ==
    \E i, j \in Created :
        /\ has_connection(invocations[i])
        /\ result(invocations[i].future) = <<"raise", ConnectionClosedError>>
        /\ ~ has_connection(invocations[j]) /\ has_event_handler(invocations[j])
        /\ \E k \in Sends(j, outbox) : outbox[k].connection = invocations[i].connection
        /\ Pending(j) /\ Listening(j) /\ ~ done(invocations[j].future)

Init == FutureInit /\ ServiceInit /\ CallersInit /\ invocationLimit = MaxInvocations

\* The same construction, with callers that create MaxConcurrent invocations.
InitConcurrent ==
    FutureInit /\ ServiceInit /\ CallersInit /\ invocationLimit = MaxConcurrent

\* One Future under the two threads; the service is left as constructed.
SpecFuture == Init /\ [][NextFuture]_vars

Spec == Init /\ [][Next]_vars

\* The service, one action per handler, with two invocations alive together.
SpecConcurrent == InitConcurrent /\ [][NextConcurrent]_vars

\* The service under a reactor that fires every timer that is due and still
\* armed, with a clock that does not stop.
SpecLive ==
    /\ Init /\ [][NextLive]_vars
    /\ \A i \in 1 .. MaxInvocations : WF_vars(DeadlineArrives(i))
    /\ \A i \in 1 .. MaxInvocations : WF_vars(FireDeadlineTimer(i))

\* _send run statement by statement by two caller threads, against the
\* connection's reader thread.
SpecSend == InitConcurrent /\ [][NextSend]_vars

====
